---- MODULE Spec2Model ----
(***************************************************************************)
(* awsvolclean (volclean.py): removal of unattached EBS volumes.           *)
(*                                                                         *)
(* Three specifications share the module:                                  *)
(*   Spec           main(): accounts x regions, VolumeCleaner.run with its *)
(*                  two ThreadPool.map phases, confirmation, report_data   *)
(*   SpecCandidate  VolumeCleaner.candidate / tag_filter as a function of  *)
(*                  its inputs                                             *)
(*   SpecRetry      the two @retry profiles applied to a call whose        *)
(*                  failures the environment chooses                       *)
(*                                                                         *)
(* Strings that the program parses (tag rules, tag values, regexes) are    *)
(* sequences of one-character strings.  Times are whole days.              *)
(***************************************************************************)
EXTENDS Integers, Sequences, FiniteSets, TLC

VARIABLES
    pc,            \* position of main(): parse, accounts, regions, account, region, run, except, report, ...
    args,          \* the parsed command line (argparse namespace)
    accounts,      \* main: accounts (sequence of AWSAccount)
    regions,       \* main: regions (sequence of region names)
    ai, ri,        \* positions of the two for-loops of main
    report_data,   \* main: report_data, account -> region -> removal_log
    report_file,   \* what json.dump wrote (<<>> of nothing while unwritten)
    log_errors,    \* the log.error lines of main's two except clauses
    exc,           \* the exception travelling from run() to main's handlers
    removal_log,   \* VolumeCleaner.removal_log of the current cleaner
    run_pc,        \* position inside VolumeCleaner.run
    run_attempt,   \* attempt_number of the @retry around run
    listed,        \* what available_volumes() returned to p.map
    verdict,       \* per listed volume: the state/result of its candidate() task
    candidates,    \* run: candidates
    dtask,         \* per candidate: the state and attempt count of its remove_volume task
    map_exc,       \* the first exception a worker of the current p.map raised
    answer,        \* what the user typed at query_yes_no ("-" while not asked)
    cloud,         \* the volumes that exist (status available) in the cloud
    cloud_calls,   \* kinds of cloud API calls issued so far
    cand,          \* SpecCandidate: inputs and result of one candidate() call
    rt             \* SpecRetry: inputs and result of one retried call

mainVars == <<pc, args, accounts, regions, ai, ri, report_data, report_file, log_errors,
              exc, removal_log, run_pc, run_attempt, listed, verdict, candidates,
              dtask, map_exc, answer, cloud, cloud_calls>>
vars == <<mainVars, cand, rt>>

(***************************************************************************)
(* Bounds of the model.                                                    *)
(***************************************************************************)
\* volumes that exist in the cloud at the start (ids 1..MaxVolumes)
MaxVolumes == 3
\* executions of run during which every call may answer a rate-limit error
MaxRunThrottle == 1
\* attempts of one remove_volume call up to which a rate-limit error may be
\* followed by any answer
MaxRemoveThrottle == 1

(***************************************************************************)
(* Program constants.                                                      *)
(***************************************************************************)
IdleThreshold == 299
RunMaxAttempts == 30
RunWaitMultiplier == 3000
RunWaitMax == 120000
RemoveMaxAttempts == 100
RemoveWaitMultiplier == 1000
RemoveWaitMax == 30000

Min(a, b) == IF a <= b THEN a ELSE b

(***************************************************************************)
(* Exceptions.                                                             *)
(***************************************************************************)
NoExc == [type |-> "none", code |-> ""]
ClientError(code) == [type |-> "ClientError", code |-> code]
PyError(t) == [type |-> t, code |-> ""]
RequestLimitExceeded == ClientError("RequestLimitExceeded")
UnauthorizedOperation == ClientError("UnauthorizedOperation")
AccessDenied == ClientError("AccessDenied")
InternalError == ClientError("InternalError")

(***************************************************************************)
(* check_positive (argparse type of --age): int(value) <= 0 is rejected.   *)
(***************************************************************************)
check_positive(value) == value > 0

(***************************************************************************)
(* Tag rules.  tag.split(':', 1) cuts at the first colon; a rule without a *)
(* colon yields one part and the tuple assignment raises ValueError.       *)
(***************************************************************************)
ColonAt(tag) ==
    IF \E i \in 1..Len(tag) : tag[i] = ":"
    THEN CHOOSE i \in 1..Len(tag) : tag[i] = ":" /\ \A j \in 1..(i - 1) : tag[j] # ":"
    ELSE 0

split(tag) ==
    LET c == ColonAt(tag) IN
    IF c = 0 THEN <<tag>>
    ELSE <<SubSeq(tag, 1, c - 1), SubSeq(tag, c + 1, Len(tag))>>

\* the rule is of the form key:regex with a non-empty key and a non-empty regex
WellFormed(tag) ==
    LET parts == split(tag) IN
    Len(parts) = 2 /\ parts[1] # <<>> /\ parts[2] # <<>>

(***************************************************************************)
(* Regular expressions, for the patterns used here: an optional leading    *)
(* "^" followed by literal characters.  A lone "(" does not compile.       *)
(***************************************************************************)
re_compiles(pattern) == \A i \in 1..Len(pattern) : pattern[i] # "("

re_search(pattern, s) ==
    IF pattern # <<>> /\ pattern[1] = "^"
    THEN LET lit == Tail(pattern) IN
         Len(lit) <= Len(s) /\ SubSeq(s, 1, Len(lit)) = lit
    ELSE \E i \in 1..(Len(s) + 1) :
            i + Len(pattern) - 1 <= Len(s) /\ SubSeq(s, i, i + Len(pattern) - 1) = pattern

(***************************************************************************)
(* volume.tags is None for a volume without tags, else a list of           *)
(* {Key, Value}: [none |-> TRUE/FALSE, items |-> <<...>>].                 *)
(* tag_value: next((item.Value for item in tags if item.Key == key), None) *)
(***************************************************************************)
HasKey(items, key) == \E i \in 1..Len(items) : items[i].Key = key
FirstValue(items, key) ==
    items[CHOOSE i \in 1..Len(items) :
            items[i].Key = key /\ \A j \in 1..(i - 1) : items[j].Key # key].Value

(***************************************************************************)
(* VolumeCleaner.tag_filter: [ret |-> BOOLEAN, exc |-> exception].         *)
(***************************************************************************)
RECURSIVE tag_filter_from(_, _, _)
tag_filter_from(vtags, tags, k) ==
    IF k > Len(tags) THEN [ret |-> TRUE, exc |-> NoExc]
    ELSE LET parts == split(tags[k]) IN
         IF Len(parts) # 2 THEN [ret |-> FALSE, exc |-> PyError("ValueError")]
         ELSE IF parts[1] = <<>> \/ parts[2] = <<>>
              THEN [ret |-> FALSE, exc |-> PyError("ValueError")]
         ELSE IF vtags.none THEN [ret |-> FALSE, exc |-> PyError("TypeError")]
         ELSE IF ~HasKey(vtags.items, parts[1]) THEN [ret |-> FALSE, exc |-> NoExc]
         ELSE IF ~re_compiles(parts[2]) THEN [ret |-> FALSE, exc |-> PyError("re.error")]
         ELSE IF ~re_search(parts[2], FirstValue(vtags.items, parts[1]))
              THEN [ret |-> FALSE, exc |-> NoExc]
         ELSE tag_filter_from(vtags, tags, k + 1)

tag_filter(vtags, tags) ==
    IF tags = <<>> THEN [ret |-> TRUE, exc |-> NoExc]
    ELSE tag_filter_from(vtags, tags, 1)

(***************************************************************************)
(* VolumeCleaner.candidate.  metrics is what get_metrics would answer:     *)
(* [exc |-> exception, Datapoints |-> sequence of Minimum values].         *)
(* Result: [ret |-> "volume" | "None" | "raise", exc, metrics_called].     *)
(***************************************************************************)
AllIdle(points) == \A i \in 1..Len(points) : ~(points[i] < IdleThreshold)

candidate(volume, a, metrics, now) ==
    LET tf == tag_filter(volume.tags, a.tags) IN
    IF tf.exc # NoExc THEN [ret |-> "raise", exc |-> tf.exc, metrics_called |-> FALSE]
    ELSE IF ~tf.ret THEN [ret |-> "None", exc |-> NoExc, metrics_called |-> FALSE]
    ELSE IF a.ignore_metrics THEN [ret |-> "volume", exc |-> NoExc, metrics_called |-> FALSE]
    ELSE IF metrics.exc # NoExc THEN [ret |-> "raise", exc |-> metrics.exc, metrics_called |-> TRUE]
    ELSE IF Len(metrics.Datapoints) = 0
         THEN IF now >= volume.create_time + a.age
              THEN [ret |-> "volume", exc |-> NoExc, metrics_called |-> TRUE]
              ELSE [ret |-> "None", exc |-> NoExc, metrics_called |-> TRUE]
    ELSE IF ~AllIdle(metrics.Datapoints)
         THEN [ret |-> "None", exc |-> NoExc, metrics_called |-> TRUE]
    ELSE [ret |-> "volume", exc |-> NoExc, metrics_called |-> TRUE]

(***************************************************************************)
(* The @retry decorator (retrying.Retrying.call) with                      *)
(* stop_max_attempt_number, wait_exponential_multiplier,                   *)
(* wait_exponential_max and retry_on_exception.                            *)
(***************************************************************************)
\* variant: every ClientError is taken for a rate-limit error
retry_on_any_client_error(e) == e.type = "ClientError"

retry_on_request_limit_exceeded(e) ==
    IF e.type = "ClientError"
    THEN IF e.code = "RequestLimitExceeded" THEN TRUE ELSE FALSE
    ELSE FALSE

\* @retry(...) above VolumeCleaner.run
run_retry ==
    [max_attempts |-> RunMaxAttempts, multiplier |-> RunWaitMultiplier, wait_max |-> RunWaitMax]

\* variant: the deletion profile with a ceiling of 300 s
remove_volume_retry_long ==
    [max_attempts |-> RemoveMaxAttempts, multiplier |-> RemoveWaitMultiplier,
     wait_max |-> 10 * RemoveWaitMax]

\* @retry(...) above VolumeCleaner.remove_volume
remove_volume_retry ==
    [max_attempts |-> RemoveMaxAttempts, multiplier |-> RemoveWaitMultiplier,
     wait_max |-> RemoveWaitMax]

\* an attempt is rejected (retried) when it raised and retry_on_exception accepts it
should_reject(e) == e # NoExc /\ retry_on_request_limit_exceeded(e)

\* stop_after_attempt: previous_attempt_number >= stop_max_attempt_number
stop(attempt_number, profile) == attempt_number >= profile.max_attempts

\* exponential_sleep: multiplier * 2 ** previous_attempt_number, capped at the maximum.
\* From 2^17 on the product exceeds every cap used here; the cap is returned
\* directly so that the product stays within machine integers.
exponential_sleep(previous_attempt_number, profile) ==
    IF previous_attempt_number > 16 THEN profile.wait_max
    ELSE Min(profile.multiplier * 2^previous_attempt_number, profile.wait_max)

\* What the wrapped function does at attempt k when the environment answers the
\* first n attempts with RequestLimitExceeded and every later one with final
\* (NoExc: the call succeeds).
Outcome(n, final, k) == IF k <= n THEN RequestLimitExceeded ELSE final

\* Retrying.call: the loop over attempts.  exc = NoExc: the call returned.
RECURSIVE RetryingCall(_, _, _, _)
RetryingCall(profile, n, final, attempt_number) ==
    LET e == Outcome(n, final, attempt_number) IN
    IF ~should_reject(e)
    THEN [exc |-> e, attempts |-> attempt_number]
    ELSE IF stop(attempt_number, profile)
         THEN [exc |-> e, attempts |-> attempt_number]
         ELSE RetryingCall(profile, n, final, attempt_number + 1)

retry(profile, n, final) == RetryingCall(profile, n, final, 1)

\* time.sleep(self.wait(attempt_number, ...)) after every attempt but the last:
\* the sleeps of a call that took `attempts` attempts
retry_waits(profile, attempts) ==
    [k \in 1..(attempts - 1) |-> exponential_sleep(k, profile)]

(***************************************************************************)
(* query_yes_no(question, default='no'): one round of its while loop.      *)
(* Lower is str.lower() on the inputs the user is given here.              *)
(***************************************************************************)
Lower(choice) ==
    CASE choice = "Y" -> "y"
      [] choice = "YES" -> "yes"
      [] choice = "No" -> "no"
      [] OTHER -> choice

valid == [yes |-> TRUE, y |-> TRUE, ye |-> TRUE, no |-> FALSE, n |-> FALSE]

\* "yes" / "no": the value returned; "again": the loop asks once more
query_yes_no(typed, default) ==
    LET choice == Lower(typed) IN
    IF default # "None" /\ choice = "" THEN (IF valid[default] THEN "yes" ELSE "no")
    ELSE IF choice \in DOMAIN valid THEN (IF valid[choice] THEN "yes" ELSE "no")
    ELSE "again"

(***************************************************************************)
(* The cloud: the default credentials belong to account a1; volumes        *)
(* 1..MaxVolumes, each owned by one account in one region.                 *)
(***************************************************************************)
Volumes == 1..MaxVolumes

\* the account of the default credentials: sts get_caller_identity().get('Account')
current_account_id == "a1"

VolumeHome(v) ==
    CASE v \in {1, 2} -> <<"a1", "r1">>
      [] v = 3 -> <<"a2", "r2">>
      [] OTHER -> <<"a1", "r2">>

Tag(k, val) == [Key |-> k, Value |-> val]
NoTags == [none |-> TRUE, items |-> <<>>]
Tags(items) == [none |-> FALSE, items |-> items]

Volume(v) ==
    [volume_id |-> v,
     tags |-> CASE v = 1 -> Tags(<<Tag(<<"N">>, <<"a", "b">>)>>)
                [] v = 2 -> Tags(<<Tag(<<"N">>, <<"b">>)>>)
                [] v = 4 -> NoTags
                [] OTHER -> Tags(<<Tag(<<"N">>, <<"a">>)>>),
     create_time |-> CASE v = 1 -> 6 [] v = 2 -> 15 [] OTHER -> 0]

\* datetime.utcnow() as read by candidate()
Clock == {19, 20}

AccessDeniedException == ClientError("AccessDeniedException")

\* what a cloud call can answer besides success
CloudErrors == {RequestLimitExceeded, UnauthorizedOperation, AccessDenied, InternalError}

\* A rate-limit error of the metrics calls or of a deletion that used up its
\* attempts reaches run's wrapper only during the first MaxRunThrottle executions
\* of run.
MayThrottleRun == run_attempt <= MaxRunThrottle

CloudAnswers == {NoExc} \cup {e \in CloudErrors : e # RequestLimitExceeded \/ MayThrottleRun}

\* describe_volumes: answered freely during the first MaxRunThrottle + 1 executions
\* of run; a throttling that lasts longer lasts until run has used up its attempts
ListingAnswers ==
    IF run_attempt > MaxRunThrottle + 1 THEN {RequestLimitExceeded}
    ELSE {NoExc} \cup CloudErrors

Series == {<<>>, <<400, 299, 500>>, <<400, 298, 500>>}

RECURSIVE SortedSeq(_)
SortedSeq(S) ==
    IF S = {} THEN <<>>
    ELSE LET m == CHOOSE x \in S : \A y \in S : x <= y IN <<m>> \o SortedSeq(S \ {m})

Range(q) == {q[i] : i \in 1..Len(q)}

(***************************************************************************)
(* aws_session(aws_account, aws_role): with a role and an account the      *)
(* session assumes the role in that account (sts assume_role); otherwise   *)
(* it is the session of the default credentials, whatever the account.     *)
(***************************************************************************)
aws_session(aws_account, aws_role) ==
    IF aws_role # "None" /\ aws_account # "None"
    THEN [assume_role |-> TRUE, account |-> aws_account]
    ELSE [assume_role |-> FALSE, account |-> current_account_id]

\* the cloud calls that building the session issues
SessionCalls(session) == IF session.assume_role THEN {"assume_role"} ELSE {}

\* what sts assume_role can answer
SessionAnswers(session) ==
    IF session.assume_role THEN {NoExc, AccessDenied, InternalError} ELSE {NoExc}

\* get_metrics: aws_session, then cloudwatch get_metric_statistics; `at` is the
\* call that answered
MetricsAnswers(session) ==
    {[exc |-> NoExc, Datapoints |-> d, at |-> "get_metric_statistics"] : d \in Series}
    \cup {[exc |-> e, Datapoints |-> <<>>, at |-> "get_metric_statistics"] :
            e \in CloudAnswers \ {NoExc}}
    \cup {[exc |-> e, Datapoints |-> <<>>, at |-> "assume_role"] :
            e \in SessionAnswers(session) \ {NoExc}}

\* ec2.volumes.filter(status = available) through the session, in the region
available_volumes(session, region_name) ==
    SortedSeq({v \in cloud : VolumeHome(v) = <<session.account, region_name>>})

(***************************************************************************)
(* Command lines.                                                          *)
(***************************************************************************)
TagArgs ==
    { <<>>,
      << <<"N", ":", "a">> >>,
      << <<"N", ":", "a">>, <<"K", ":">> >> }

\* The command lines tried:
\*   no --account, no --region, no --role         (default account, all regions)
\*   --account a1 a2 --region r1 r2               (with and without --role R)
\*   --role R --scrape-org --region r1 r2         (the accounts of the organization)
ArgsSet ==
    {a \in [age : {0, 14}, tags : TagArgs, all_yes : BOOLEAN, ignore_metrics : BOOLEAN,
            pool_size : {1, 2}, role : {"None", "R"}, scrape_org : BOOLEAN,
            account : {<<>>, <<"a1", "a2">>}, region : {<<>>, <<"r1", "r2">>},
            report_filename : {TRUE}] :
        \/ a.account = <<>> /\ a.region = <<>> /\ a.role = "None" /\ ~a.scrape_org
        \/ /\ a.account # <<>> /\ a.region # <<>> /\ ~a.scrape_org
           /\ a.tags = <<>>
           /\ a.role = "None" => a.ignore_metrics
        \/ /\ a.account = <<>> /\ a.region # <<>> /\ a.role # "None" /\ a.scrape_org
           /\ a.tags = <<>> /\ a.ignore_metrics /\ a.pool_size = 2}

EmptyMap == [x \in {} |-> <<>>]
NoFile == [written |-> FALSE, data |-> EmptyMap]

\* class AWSAccount
AWSAccount(account_id, account_role) == [account_id |-> account_id, role |-> account_role]

\* VolumeCleaner.__init__: self.account, self.role, self.region
account == accounts[ai].account_id
role == accounts[ai].role
region == regions[ri]

\* the locals of one execution of run
ResetRunLocals ==
    /\ listed' = <<>>
    /\ verdict' = EmptyMap
    /\ candidates' = <<>>
    /\ dtask' = EmptyMap
    /\ map_exc' = NoExc
    /\ answer' = "-"

(***************************************************************************)
(* main(): argument parsing, accounts, regions.                            *)
(***************************************************************************)
InitMain ==
    /\ pc = "parse"
    /\ args \in ArgsSet
    /\ accounts = <<>>
    /\ regions = <<>>
    /\ ai = 1
    /\ ri = 1
    /\ report_data = EmptyMap
    /\ report_file = NoFile
    /\ log_errors = {}
    /\ exc = NoExc
    /\ removal_log = <<>>
    /\ run_pc = "idle"
    /\ run_attempt = 1
    /\ listed = <<>>
    /\ verdict = EmptyMap
    /\ candidates = <<>>
    /\ dtask = EmptyMap
    /\ map_exc = NoExc
    /\ answer = "-"
    /\ cloud = Volumes
    /\ cloud_calls = {}

cleanerVars == <<removal_log, run_pc, run_attempt, listed, verdict, candidates, dtask,
                 map_exc, answer>>

\* p.parse_args: --age goes through check_positive; a rejected value ends the process
ParseArgs ==
    /\ pc = "parse"
    /\ pc' = IF check_positive(args.age) THEN "accounts" ELSE "usage"
    /\ UNCHANGED <<args, accounts, regions, ai, ri, report_data, report_file, log_errors,
                   exc, cleanerVars, cloud, cloud_calls, cand, rt>>

\* organizations list_accounts answers the accounts of the organization in pages
OrgPages == << <<"a1">>, <<"a2">> >>

RECURSIVE Concat(_)
Concat(pages) == IF pages = <<>> THEN <<>> ELSE Head(pages) \o Concat(Tail(pages))

\* What the list_accounts loop can do: read every page, or read `pages` pages and
\* get the error `exc` for the next one.
ListAccountsAnswers ==
    {[pages |-> Len(OrgPages), exc |-> NoExc]}
    \cup {[pages |-> k, exc |-> e] :
            k \in 0..(Len(OrgPages) - 1), e \in {AccessDeniedException, InternalError}}

\* get_org_accounts(filter_current_account=True) once list_accounts has answered
\* (an AccessDeniedException is logged and keeps the pages read so far): the ids
\* other than filter_account_id
get_org_accounts(la, filter_account_id) ==
    SelectSeq(Concat(SubSeq(OrgPages, 1, la.pages)), LAMBDA id : id # filter_account_id)

\* the accounts of main: --role with --scrape-org, else --account, else the
\* default account.  An error of these calls is outside main's try blocks.
ResolveAccounts ==
    /\ pc = "accounts"
    /\ IF args.role # "None" /\ args.scrape_org
       THEN \E la \in ListAccountsAnswers, id \in {NoExc, InternalError} :
              IF la.exc \notin {NoExc, AccessDeniedException}
              THEN /\ cloud_calls' = cloud_calls \cup {"list_accounts"}
                   /\ accounts' = accounts /\ pc' = "crashed" /\ exc' = la.exc
              ELSE /\ cloud_calls' = cloud_calls \cup {"list_accounts", "get_caller_identity"}
                   /\ IF id # NoExc
                      THEN accounts' = accounts /\ pc' = "crashed" /\ exc' = id
                      ELSE /\ accounts' =
                                LET ids == get_org_accounts(la, current_account_id) IN
                                [i \in 1..Len(ids) |-> AWSAccount(ids[i], args.role)]
                                \o <<AWSAccount(current_account_id, "None")>>
                           /\ pc' = "regions"
                           /\ UNCHANGED exc
       ELSE IF args.account # <<>>
       THEN /\ accounts' = [i \in 1..Len(args.account) |->
                               AWSAccount(args.account[i], args.role)]
            /\ pc' = "regions"
            /\ UNCHANGED <<exc, cloud_calls>>
       ELSE /\ cloud_calls' = cloud_calls \cup {"get_caller_identity"}
            /\ \E out \in {NoExc, InternalError} :
                 IF out = NoExc
                 THEN /\ accounts' = <<AWSAccount(current_account_id, "None")>>
                      /\ pc' = "regions" /\ UNCHANGED exc
                 ELSE accounts' = accounts /\ pc' = "crashed" /\ exc' = out
    /\ UNCHANGED <<args, regions, ai, ri, report_data, report_file, log_errors,
                   cleanerVars, cloud, cand, rt>>

\* regions: --region, else all_regions() (ec2 describe_regions)
ResolveRegions ==
    /\ pc = "regions"
    /\ IF args.region # <<>>
       THEN /\ regions' = args.region
            /\ pc' = "account"
            /\ UNCHANGED <<exc, cloud_calls>>
       ELSE /\ cloud_calls' = cloud_calls \cup {"describe_regions"}
            /\ \E out \in {NoExc, InternalError} :
                 IF out = NoExc
                 THEN regions' = <<"r1", "r2">> /\ pc' = "account" /\ UNCHANGED exc
                 ELSE regions' = regions /\ pc' = "crashed" /\ exc' = out
    /\ UNCHANGED <<args, accounts, ai, ri, report_data, report_file, log_errors,
                   cleanerVars, cloud, cand, rt>>

\* for account in accounts: report_data[account.account_id] = {}
AccountStart ==
    /\ pc = "account"
    /\ IF ai > Len(accounts)
       THEN pc' = "report" /\ UNCHANGED <<report_data, ri>>
       ELSE /\ report_data' = [a \in DOMAIN report_data \cup {account} |->
                                 IF a = account THEN EmptyMap ELSE report_data[a]]
            /\ ri' = 1
            /\ pc' = "region"
    /\ UNCHANGED <<args, accounts, regions, ai, report_file, log_errors, exc,
                   cleanerVars, cloud, cloud_calls, cand, rt>>

\* for region in regions: vol_clean = VolumeCleaner(args, account, region); vol_clean.run()
RegionStart ==
    /\ pc = "region"
    /\ IF ri > Len(regions)
       THEN /\ ai' = ai + 1
            /\ pc' = "account"
            /\ UNCHANGED <<exc, cleanerVars>>
       ELSE /\ removal_log' = <<>>
            /\ run_attempt' = 1
            /\ run_pc' = "list"
            /\ pc' = "run"
            /\ exc' = NoExc
            /\ ResetRunLocals
            /\ UNCHANGED ai
    /\ UNCHANGED <<args, accounts, regions, ri, report_data, report_file, log_errors,
                   cloud, cloud_calls, cand, rt>>

(***************************************************************************)
(* VolumeCleaner.run under its @retry: the body raised e.                  *)
(***************************************************************************)
RunRaise(e) ==
    IF should_reject(e) /\ ~stop(run_attempt, run_retry)
    THEN /\ run_attempt' = run_attempt + 1
         /\ run_pc' = "list"
         /\ ResetRunLocals
         /\ UNCHANGED <<pc, exc>>
    ELSE /\ pc' = "except"
         /\ exc' = e
         /\ run_pc' = "idle"
         /\ ResetRunLocals
         /\ run_attempt' = 1

\* self.available_volumes(): aws_session, then the listing that p.map iterates
AvailableVolumes ==
    /\ pc = "run" /\ run_pc = "list"
    /\ LET session == aws_session(account, role) IN
       \E sess \in SessionAnswers(session), out \in ListingAnswers :
         IF sess # NoExc
         THEN /\ cloud_calls' = cloud_calls \cup SessionCalls(session)
              /\ RunRaise(sess)
         ELSE /\ cloud_calls' = cloud_calls \cup SessionCalls(session) \cup {"describe_volumes"}
              /\ IF out = NoExc
                 THEN /\ listed' = available_volumes(session, region)
                      /\ verdict' = [v \in Range(listed') |-> "queued"]
                      /\ run_pc' = "filter"
                      /\ UNCHANGED <<pc, exc, run_attempt, candidates, dtask, map_exc,
                                     answer>>
                 ELSE RunRaise(out)
    /\ UNCHANGED <<args, accounts, regions, ai, ri, report_data, report_file, log_errors,
                   removal_log, cloud, cand, rt>>

Running(tasks, state) == {v \in DOMAIN tasks : tasks[v] = state}

\* a worker of the pool takes the next candidate() task
StartCandidate(v) ==
    /\ pc = "run" /\ run_pc = "filter"
    /\ v \in DOMAIN verdict /\ verdict[v] = "queued"
    /\ Cardinality(Running(verdict, "running")) < args.pool_size
    /\ verdict' = [verdict EXCEPT ![v] = "running"]
    /\ UNCHANGED <<pc, args, accounts, regions, ai, ri, report_data, report_file,
                   log_errors, exc, removal_log, run_pc, run_attempt, listed, candidates,
                   dtask, map_exc, answer, cloud, cloud_calls, cand, rt>>

\* self.candidate(volume) in a worker; the pool keeps the first exception
FinishCandidate(v) ==
    /\ pc = "run" /\ run_pc = "filter"
    /\ v \in DOMAIN verdict /\ verdict[v] = "running"
    /\ LET session == aws_session(account, role) IN
       \E metrics \in MetricsAnswers(session), now \in Clock :
         LET r == candidate(Volume(v), args, metrics, now) IN
         /\ verdict' = [verdict EXCEPT ![v] = r.ret]
         /\ map_exc' = IF r.ret = "raise" /\ map_exc = NoExc THEN r.exc ELSE map_exc
         /\ cloud_calls' = IF r.metrics_called
                           THEN cloud_calls \cup SessionCalls(session)
                                \cup (IF metrics.at = "get_metric_statistics"
                                      THEN {"get_metric_statistics"} ELSE {})
                           ELSE cloud_calls
    /\ UNCHANGED <<pc, args, accounts, regions, ai, ri, report_data, report_file,
                   log_errors, exc, removal_log, run_pc, run_attempt, listed, candidates,
                   dtask, answer, cloud, cand, rt>>

\* variant: the map returns as soon as one task has finished
filter_map_any_done == \E v \in DOMAIN verdict : verdict[v] \notin {"queued", "running"}

\* p.map returns (or raises) once every task of the map has finished
filter_map_complete == \A v \in DOMAIN verdict : verdict[v] \notin {"queued", "running"}

\* list(filter(None, results)), in the order of the listing
Candidates == SelectSeq(listed, LAMBDA v : verdict[v] = "volume")

\* variant: the emptiness test is missing
removes_unasked_any(n, all_yes) == all_yes

\* len(candidates) > 0 and self.args.all_yes: the prompt is not evaluated
removes_unasked(n, all_yes) == n > 0 /\ all_yes
\* len(candidates) > 0 and not all_yes: query_yes_no decides
asks(n, all_yes) == n > 0 /\ ~all_yes

NewDeleteTasks(cs) == [v \in Range(cs) |-> [st |-> "queued", attempts |-> 0]]

\* the first p.map is over: candidates, then the condition of the if
JoinFilter ==
    /\ pc = "run" /\ run_pc = "filter"
    /\ filter_map_complete
    /\ IF map_exc # NoExc
       THEN RunRaise(map_exc)
       ELSE /\ candidates' = Candidates
            /\ IF removes_unasked(Len(candidates'), args.all_yes)
               THEN run_pc' = "delete" /\ dtask' = NewDeleteTasks(candidates')
               ELSE IF asks(Len(candidates'), args.all_yes)
                    THEN run_pc' = "confirm" /\ dtask' = dtask
                    ELSE run_pc' = "return" /\ dtask' = dtask
            /\ UNCHANGED <<pc, exc, run_attempt, listed, verdict, map_exc, answer>>
    /\ UNCHANGED <<args, accounts, regions, ai, ri, report_data, report_file, log_errors,
                   removal_log, cloud, cloud_calls, cand, rt>>

Typed == {"Y", "yes", "n", "", "maybe"}

\* query_yes_no('Do you want to remove ...'): the user types a line
Confirm ==
    /\ pc = "run" /\ run_pc = "confirm"
    /\ \E typed \in Typed :
         LET q == query_yes_no(typed, "no") IN
         /\ answer' = typed
         /\ run_pc' = CASE q = "yes" -> "delete" [] q = "no" -> "return" [] OTHER -> "confirm"
         /\ dtask' = IF q = "yes" THEN NewDeleteTasks(candidates) ELSE dtask
    /\ UNCHANGED <<pc, args, accounts, regions, ai, ri, report_data, report_file,
                   log_errors, exc, removal_log, run_attempt, listed, verdict, candidates,
                   map_exc, cloud, cloud_calls, cand, rt>>

(***************************************************************************)
(* VolumeCleaner.remove_volume under its @retry, one attempt per step.     *)
(* A task is queued, running (between attempts it sleeps), deleted         *)
(* (volume.delete() returned, the record not yet appended), done or raised.*)
(***************************************************************************)
\* removal_log_record: volume_id and str(create_time) identify the record here
Record(v) == [volume_id |-> v, create_time |-> Volume(v).create_time]

DeleteAnswers ==
    {NoExc, RequestLimitExceeded, UnauthorizedOperation, AccessDenied, InternalError}

\* tasks whose throttling outlasted the freely answered attempts
Throttled(tasks) ==
    {v \in DOMAIN tasks : tasks[v].st = "running" /\ tasks[v].attempts > MaxRemoveThrottle}

\* The answers to attempt k of task v.  Attempts 1..MaxRemoveThrottle + 1 are
\* answered freely; a throttling that lasts longer lasts up to the last attempt,
\* which is again answered freely, and one task at a time is throttled that long.
\* `at` is the call that answered: sts assume_role of aws_session, the
\* describe_volumes by which ec2.Volume(id) loads size, volume_type and
\* create_time on their first read, or delete_volume.
RemoveAttemptAnswers(v, session) ==
    LET k == dtask[v].attempts + 1
        last == stop(k, remove_volume_retry)
        free == k <= MaxRemoveThrottle + 1 \/ last
        allowed(e) == IF e = RequestLimitExceeded
                      THEN IF last THEN MayThrottleRun
                           ELSE \/ k <= MaxRemoveThrottle
                                \/ Throttled(dtask) \subseteq {v}
                      ELSE free
    IN  {[at |-> "delete_volume", exc |-> e] : e \in {e \in DeleteAnswers : allowed(e)}}
        \cup {[at |-> "describe_volumes", exc |-> e] : e \in
                {e \in DeleteAnswers \ {NoExc} : allowed(e)}}
        \cup {[at |-> "assume_role", exc |-> e] : e \in
                {e \in SessionAnswers(session) \ {NoExc} : free}}

\* the cloud calls of one attempt of remove_volume that ended at the call `at`
RemoveAttemptCalls(session, at) ==
    SessionCalls(session)
    \cup (IF at \in {"describe_volumes", "delete_volume"} THEN {"describe_volumes"} ELSE {})
    \cup (IF at = "delete_volume" THEN {"delete_volume"} ELSE {})

\* variant: the record is appended as soon as it is built, before volume.delete()
remove_volume_log_eager(log, record, moment) ==
    IF moment = "record_built" THEN Append(log, record) ELSE log

\* removal_log_record is built, volume.delete() is called, and only when it has
\* returned self.removal_log.append(removal_log_record) runs
remove_volume_log(log, record, moment) ==
    IF moment = "delete_returned" THEN Append(log, record) ELSE log

\* volume.delete() accepted by the cloud: the volume is gone
remove_volume_cloud(c, v, e) == IF e = NoExc THEN c \ {v} ELSE c

\* workers of the second pool that hold a task
Busy(tasks) == {v \in DOMAIN tasks : tasks[v].st \in {"running", "deleted"}}

\* a worker of the pool takes the next remove_volume() task
StartRemove(v) ==
    /\ pc = "run" /\ run_pc = "delete"
    /\ v \in DOMAIN dtask /\ dtask[v].st = "queued"
    /\ Cardinality(Busy(dtask)) < args.pool_size
    /\ dtask' = [dtask EXCEPT ![v].st = "running"]
    /\ UNCHANGED <<pc, args, accounts, regions, ai, ri, report_data, report_file,
                   log_errors, exc, removal_log, run_pc, run_attempt, listed, verdict,
                   candidates, map_exc, answer, cloud, cloud_calls, cand, rt>>

\* one attempt of remove_volume: aws_session, the load of the volume's
\* attributes, the record, volume.delete().
\* A rate-limit error before the last attempt leaves the task running (it sleeps
\* and tries again); any other error, and the rate-limit error of the last
\* attempt, is raised in the worker.
RemoveAttempt(v) ==
    /\ pc = "run" /\ run_pc = "delete"
    /\ v \in DOMAIN dtask /\ dtask[v].st = "running"
    /\ LET session == aws_session(account, role)
           k == dtask[v].attempts + 1
       IN  \E ans \in RemoveAttemptAnswers(v, session) :
             LET st == IF ans.exc = NoExc THEN "deleted"
                       ELSE IF should_reject(ans.exc) /\ ~stop(k, remove_volume_retry)
                            THEN "running"
                            ELSE "raised"
             IN  /\ dtask' = [dtask EXCEPT ![v] = [st |-> st, attempts |-> k]]
                 /\ cloud_calls' = cloud_calls \cup RemoveAttemptCalls(session, ans.at)
                 /\ removal_log' = IF ans.at = "delete_volume"
                                   THEN remove_volume_log(removal_log, Record(v), "record_built")
                                   ELSE removal_log
                 /\ cloud' = remove_volume_cloud(cloud, v, ans.exc)
                 /\ map_exc' = IF st = "raised" /\ map_exc = NoExc THEN ans.exc ELSE map_exc
    /\ UNCHANGED <<pc, args, accounts, regions, ai, ri, report_data, report_file,
                   log_errors, exc, run_pc, run_attempt, listed, verdict, candidates,
                   answer, cand, rt>>

\* self.removal_log.append(removal_log_record), after volume.delete() returned
AppendRecord(v) ==
    /\ pc = "run" /\ run_pc = "delete"
    /\ v \in DOMAIN dtask /\ dtask[v].st = "deleted"
    /\ removal_log' = remove_volume_log(removal_log, Record(v), "delete_returned")
    /\ dtask' = [dtask EXCEPT ![v].st = "done"]
    /\ UNCHANGED <<pc, args, accounts, regions, ai, ri, report_data, report_file,
                   log_errors, exc, run_pc, run_attempt, listed, verdict, candidates,
                   map_exc, answer, cloud, cloud_calls, cand, rt>>

delete_map_complete == \A v \in DOMAIN dtask : dtask[v].st \in {"done", "raised"}

\* the second p.map is over
JoinRemove ==
    /\ pc = "run" /\ run_pc = "delete"
    /\ delete_map_complete
    /\ IF map_exc # NoExc
       THEN RunRaise(map_exc)
       ELSE /\ run_pc' = "return"
            /\ UNCHANGED <<pc, exc, run_attempt, listed, verdict, candidates, dtask,
                           map_exc, answer>>
    /\ UNCHANGED <<args, accounts, regions, ai, ri, report_data, report_file, log_errors,
                   removal_log, cloud, cloud_calls, cand, rt>>

(***************************************************************************)
(* main(): after vol_clean.run().                                          *)
(***************************************************************************)
\* report_data[account.account_id][region] = vol_clean.removal_log
RunReturn ==
    /\ pc = "run" /\ run_pc = "return"
    /\ report_data' = [report_data EXCEPT ![account] =
            [r \in DOMAIN @ \cup {region} |-> IF r = region THEN removal_log ELSE @[r]]]
    /\ ri' = ri + 1
    /\ pc' = "region"
    /\ run_pc' = "idle"
    /\ ResetRunLocals
    /\ UNCHANGED <<args, accounts, regions, ai, report_file, log_errors, exc,
                   removal_log, run_attempt, cloud, cloud_calls, cand, rt>>

\* variant: the inner except clause tests for the account-scoped code
region_handler_catches_access_denied(e) == e.type = "ClientError" /\ e.code = "AccessDenied"

\* the inner except clause takes the exception
region_handler_catches(e) == e.type = "ClientError" /\ e.code = "UnauthorizedOperation"
\* the outer except clause takes what the inner one re-raised
account_handler_catches(e) == e.type = "ClientError" /\ e.code = "AccessDenied"

\* except botocore.exceptions.ClientError, inner then outer
Except ==
    /\ pc = "except"
    /\ IF region_handler_catches(exc)
       THEN /\ log_errors' = log_errors \cup {<<"region", account, region>>}
            /\ ri' = ri + 1
            /\ pc' = "region"
            /\ UNCHANGED ai
       ELSE IF account_handler_catches(exc)
            THEN /\ log_errors' = log_errors \cup {<<"account", account, "">>}
                 /\ ai' = ai + 1
                 /\ pc' = "account"
                 /\ UNCHANGED ri
            ELSE /\ pc' = "crashed"
                 /\ UNCHANGED <<log_errors, ai, ri>>
    /\ UNCHANGED <<args, accounts, regions, report_data, report_file, exc, cleanerVars,
                   cloud, cloud_calls, cand, rt>>

\* if args.report_filename: json.dump(report_data, report_file, ...)
Report ==
    /\ pc = "report"
    /\ report_file' = IF args.report_filename
                      THEN [written |-> TRUE, data |-> report_data]
                      ELSE report_file
    /\ pc' = "done"
    /\ UNCHANGED <<args, accounts, regions, ai, ri, report_data, log_errors, exc,
                   cleanerVars, cloud, cloud_calls, cand, rt>>

Off == [pc |-> "off"]

Init == InitMain /\ cand = Off /\ rt = Off

Next ==
    \/ ParseArgs
    \/ ResolveAccounts
    \/ ResolveRegions
    \/ AccountStart
    \/ RegionStart
    \/ AvailableVolumes
    \/ \E v \in Volumes : StartCandidate(v)
    \/ \E v \in Volumes : FinishCandidate(v)
    \/ JoinFilter
    \/ Confirm
    \/ \E v \in Volumes : StartRemove(v)
    \/ \E v \in Volumes : RemoveAttempt(v)
    \/ \E v \in Volumes : AppendRecord(v)
    \/ JoinRemove
    \/ RunReturn
    \/ Except
    \/ Report

Spec == Init /\ [][Next]_vars


(***************************************************************************)
(* SpecCandidate: candidate() applied to one volume, one tag rule set, one *)
(* metrics answer.  The rule sets are well-formed.                         *)
(***************************************************************************)
MainOff ==
    /\ pc = "off"
    /\ args = CHOOSE a \in ArgsSet : TRUE
    /\ accounts = <<>>
    /\ regions = <<>>
    /\ ai = 1
    /\ ri = 1
    /\ report_data = EmptyMap
    /\ report_file = NoFile
    /\ log_errors = {}
    /\ exc = NoExc
    /\ removal_log = <<>>
    /\ run_pc = "idle"
    /\ run_attempt = 1
    /\ listed = <<>>
    /\ verdict = EmptyMap
    /\ candidates = <<>>
    /\ dtask = EmptyMap
    /\ map_exc = NoExc
    /\ answer = "-"
    /\ cloud = {}
    /\ cloud_calls = {}

CandTags ==
    { NoTags,
      Tags(<<>>),
      Tags(<<Tag(<<"N">>, <<"a", "b">>)>>),
      Tags(<<Tag(<<"N">>, <<"b">>)>>),
      Tags(<<Tag(<<"N">>, <<"a", "b">>), Tag(<<"M">>, <<"a">>)>>) }

CandRules ==
    { <<>>,
      << <<"N", ":", "a">> >>,
      << <<"N", ":", "^", "b">> >>,
      << <<"N", ":", "a">>, <<"M", ":", "a">> >> }

CandSeries == Series \cup {<<299>>, <<298>>}

NoResult == [ret |-> "-", exc |-> NoExc, metrics_called |-> FALSE]

InitCandidate ==
    /\ MainOff
    /\ rt = Off
    /\ cand \in [pc : {"call"},
                 volume : [volume_id : {1}, tags : CandTags, create_time : {5, 6, 7}],
                 a : [tags : CandRules, ignore_metrics : BOOLEAN, age : {14}],
                 metrics : [exc : {NoExc}, Datapoints : CandSeries],
                 now : Clock,
                 result : {NoResult}]

CandidateCall ==
    /\ cand.pc = "call"
    /\ cand' = [cand EXCEPT !.pc = "done",
                            !.result = candidate(cand.volume, cand.a, cand.metrics, cand.now)]
    /\ UNCHANGED <<mainVars, rt>>

SpecCandidate == InitCandidate /\ [][CandidateCall]_vars

(***************************************************************************)
(* SpecRetry: one call through each of the two @retry wrappers; the        *)
(* environment answers the first n attempts with RequestLimitExceeded and  *)
(* every later attempt with final.                                         *)
(***************************************************************************)
NotCalled == [called |-> FALSE, exc |-> NoExc, attempts |-> 0, waits |-> <<>>]

RetryFinals == {NoExc, UnauthorizedOperation, InternalError, PyError("ValueError")}

InitRetry ==
    /\ MainOff
    /\ cand = Off
    /\ rt \in [pc : {"on"}, n : 0..(RemoveMaxAttempts + 1), final : RetryFinals,
               remove_volume : {NotCalled}, run : {NotCalled}]

Called(profile, n, final) ==
    LET r == retry(profile, n, final) IN
    [called |-> TRUE, exc |-> r.exc, attempts |-> r.attempts,
     waits |-> retry_waits(profile, r.attempts)]

CallRemoveVolume ==
    /\ rt.pc = "on" /\ ~rt.remove_volume.called
    /\ rt' = [rt EXCEPT !.remove_volume = Called(remove_volume_retry, rt.n, rt.final)]
    /\ UNCHANGED <<mainVars, cand>>

CallRun ==
    /\ rt.pc = "on" /\ ~rt.run.called
    /\ rt' = [rt EXCEPT !.run = Called(run_retry, rt.n, rt.final)]
    /\ UNCHANGED <<mainVars, cand>>

SpecRetry == InitRetry /\ [][CallRemoveVolume \/ CallRun]_vars

(***************************************************************************)
(* Properties.                                                             *)
(***************************************************************************)
NoDuplicateIds(log) ==
    \A i, j \in 1..Len(log) : log[i].volume_id = log[j].volume_id => i = j

\* C1: the removal log of every account/region (the current cleaner's and those
\* already stored in report_data) holds at most one record per volume id, also
\* after remove_volume was retried and after run was re-executed by its wrapper
C1_OneRecordPerVolume ==
    /\ NoDuplicateIds(removal_log)
    /\ \A a \in DOMAIN report_data : \A r \in DOMAIN report_data[a] :
          NoDuplicateIds(report_data[a][r])

\* a re-executed run whose log holds a record of the first execution and one of
\* the second, the latter from a remove_volume that was retried
C1_Witness ==
    /\ pc = "run" /\ run_attempt > 1
    /\ Len(removal_log) = 2
    /\ \E v \in DOMAIN dtask : dtask[v].st = "done" /\ dtask[v].attempts > 1 /\ v \notin cloud

ConfigError ==
    \/ ~check_positive(args.age)
    \/ \E k \in 1..Len(args.tags) : ~WellFormed(args.tags[k])

\* C2: with a malformed tag rule or a non-positive age on the command line, no
\* cloud call is ever issued (the run aborts at startup)
C2_ConfigErrorBeforeCloudCalls == ConfigError => cloud_calls = {}

\* C3: through either wrapper, n < max rate-limit failures followed by success
\* return the success; followed by another error, that error is raised by the
\* attempt it occurred in (the very first attempt when n = 0), with no retry
C3_RetryOnlyOnRateLimit ==
    \A w \in {"remove_volume", "run"} :
        LET r == rt[w]
            profile == IF w = "run" THEN run_retry ELSE remove_volume_retry
        IN  (r.called /\ rt.n < profile.max_attempts) =>
              /\ r.exc = rt.final
              /\ r.attempts = rt.n + 1

\* 29 rate-limit failures, then success on the 30th and last attempt of run
C3_Witness ==
    /\ rt.pc = "on" /\ rt.run.called /\ rt.remove_volume.called
    /\ rt.n = RunMaxAttempts - 1 /\ rt.final = NoExc
    /\ rt.run.exc = NoExc /\ rt.run.attempts = RunMaxAttempts

\* C4: an UnauthorizedOperation that run() raised is taken by the inner handler:
\* the loop goes on with the next region of the same account, and the process
\* never ends on that error
C4_UnauthorizedSkipsRegion ==
    /\ [][(pc = "except" /\ exc = UnauthorizedOperation) =>
            (pc' = "region" /\ ai' = ai /\ ri' = ri + 1 /\ report_data' = report_data)]_vars
    /\ [](pc = "crashed" => exc # UnauthorizedOperation)

\* Reporting is reached although the first region was skipped for an authorization
\* error raised after a deletion; the later region and the later account were processed
C4_Witness ==
    /\ pc = "report"
    /\ <<"region", "a1", "r1">> \in log_errors
    /\ {1, 2} \ cloud # {}
    /\ "a1" \in DOMAIN report_data /\ "r2" \in DOMAIN report_data["a1"]
    /\ "a2" \in DOMAIN report_data /\ DOMAIN report_data["a2"] = {"r1", "r2"}

Yes == {"yes", "y", "ye"}

\* C5: remove_volume tasks exist only if there are candidates and either
\* --run-dont-ask is set and nothing was asked, or the user answered yes; with no
\* candidates (or with --run-dont-ask) the prompt is never shown
C5_DeleteOnlyWhenConfirmed ==
    pc = "run" =>
      /\ (DOMAIN dtask # {} \/ run_pc = "delete") =>
            /\ Len(candidates) > 0
            /\ \/ args.all_yes /\ answer = "-"
               \/ ~args.all_yes /\ Lower(answer) \in Yes
      /\ answer # "-" => (Len(candidates) > 0 /\ ~args.all_yes)
      /\ Len(candidates) = 0 => DOMAIN dtask = {}

\* a delete call that followed the answer "Y"
C5_Witness ==
    /\ pc = "run" /\ run_pc = "delete" /\ ~args.all_yes /\ answer = "Y"
    /\ \E v \in DOMAIN dtask : dtask[v].st = "done" /\ v \notin cloud

\* C6: while remove_volume tasks exist, every listed volume has its verdict, no
\* candidate() task is queued or running, and the tasks are exactly the volumes
\* with a positive verdict
C6_FilterCompleteBeforeDelete ==
    (pc = "run" /\ DOMAIN dtask # {}) =>
      /\ DOMAIN verdict = Range(listed)
      /\ \A v \in Range(listed) : verdict[v] \in {"volume", "None"}
      /\ DOMAIN dtask = {v \in Range(listed) : verdict[v] = "volume"}

\* two volumes listed with a pool of two: one rejected, the other being deleted
C6_Witness ==
    /\ pc = "run" /\ args.pool_size = 2 /\ Len(listed) = 2
    /\ \E v \in DOMAIN verdict : verdict[v] = "None"
    /\ \E v \in DOMAIN dtask : dtask[v].st = "running"

\* a volume matches a rule iff it has a tag with the rule's key whose value the
\* rule's regex matches
RuleMatches(vtags, rule) ==
    LET parts == split(rule) IN
    /\ ~vtags.none
    /\ \E i \in 1..Len(vtags.items) :
          vtags.items[i].Key = parts[1] /\ re_search(parts[2], vtags.items[i].Value)

AllRulesMatch(vtags, rules) == \A k \in 1..Len(rules) : RuleMatches(vtags, rules[k])

Eligible(c) ==
    /\ AllRulesMatch(c.volume.tags, c.a.tags)
    /\ \/ c.a.ignore_metrics
       \/ Len(c.metrics.Datapoints) = 0 /\ c.now >= c.volume.create_time + c.a.age
       \/ /\ Len(c.metrics.Datapoints) > 0
          /\ \A i \in 1..Len(c.metrics.Datapoints) : c.metrics.Datapoints[i] >= IdleThreshold

\* C7: candidate() returns the volume iff all tag rules match and (metrics are
\* ignored, or the series is empty and the volume is old enough, or every datapoint
\* is >= 299), else None; no metrics call when a rule fails or metrics are ignored
C7_CandidateIffEligible ==
    cand.pc = "done" =>
      /\ cand.result.ret = IF Eligible(cand) THEN "volume" ELSE "None"
      /\ (~AllRulesMatch(cand.volume.tags, cand.a.tags) \/ cand.a.ignore_metrics)
            => ~cand.result.metrics_called

\* the same for volumes whose tags attribute is a list
C7_HoldsForTaggedVolumes == ~cand.volume.tags.none => C7_CandidateIffEligible

Exhausted(r, profile) ==
    r.called /\ r.attempts = profile.max_attempts /\ r.exc = RequestLimitExceeded

LastWait(r) == r.waits[Len(r.waits)]

\* the wait before attempt k + 1 is min(multiplier * 2^k, cap): twice the
\* multiplier first, then doubling up to the cap
DoublesToCap(waits, profile) ==
    \A k \in 1..Len(waits) :
        waits[k] = IF k = 1 THEN Min(2 * profile.multiplier, profile.wait_max)
                   ELSE Min(2 * waits[k - 1], profile.wait_max)

\* C8 as stated: a deletion call that uses up its attempts has made more
\* attempts and has reached a longer wait than a run call that uses up its attempts
C8_DeletionLongerCeilingMoreAttempts ==
    (rt.pc = "on" /\ Exhausted(rt.remove_volume, remove_volume_retry)
                  /\ Exhausted(rt.run, run_retry)) =>
      /\ rt.remove_volume.attempts > rt.run.attempts
      /\ LastWait(rt.remove_volume) > LastWait(rt.run)

\* C8 amended: the waits of either wrapper double from twice the multiplier up to
\* the cap; a deletion call that uses up its attempts has made more attempts than
\* a run call that does, and its longest wait is the shorter one
C8_DeletionShorterCeilingMoreAttempts ==
    rt.pc = "on" =>
      /\ rt.remove_volume.called =>
            /\ DoublesToCap(rt.remove_volume.waits, remove_volume_retry)
            /\ rt.remove_volume.attempts <= remove_volume_retry.max_attempts
      /\ rt.run.called =>
            /\ DoublesToCap(rt.run.waits, run_retry)
            /\ rt.run.attempts <= run_retry.max_attempts
      /\ (Exhausted(rt.remove_volume, remove_volume_retry) /\ Exhausted(rt.run, run_retry)) =>
            /\ rt.remove_volume.attempts > rt.run.attempts
            /\ LastWait(rt.remove_volume) < LastWait(rt.run)
            /\ LastWait(rt.remove_volume) = remove_volume_retry.wait_max
            /\ LastWait(rt.run) = run_retry.wait_max

\* both wrappers used up their attempts on rate-limit errors
C8_Witness ==
    /\ rt.pc = "on"
    /\ Exhausted(rt.remove_volume, remove_volume_retry)
    /\ Exhausted(rt.run, run_retry)

\* C9: once run is in its deletion phase it does not go back to listing,
\* filtering or confirming
C9_NoReentryAfterDeleting ==
    [][(pc = "run" /\ run_pc = "delete") => run_pc' \notin {"list", "filter", "confirm"}]_vars

\* some account/region of report_data holds a record of volume v
Reported(v) ==
    \E a \in DOMAIN report_data : \E r \in DOMAIN report_data[a] :
        \E i \in 1..Len(report_data[a][r]) : report_data[a][r][i].volume_id = v

\* C10: at Reporting, report_data holds a record for exactly the volumes whose
\* delete call succeeded
C10_ReportHoldsEveryDeletion ==
    pc \in {"report", "done"} => \A v \in Volumes : (v \notin cloud) <=> Reported(v)

\* the half of C10 that the program keeps: every reported record is a deletion
C10_ReportedWereDeleted ==
    pc \in {"report", "done"} => \A v \in Volumes : Reported(v) => v \notin cloud

====
